---- MODULE Spec2Model ----
(***************************************************************************)
(* Zelda64 Seqvol Editor: decoder of the SEQ section of a binary sequence  *)
(* file, the volume / jump patcher and the main flow around them.          *)
(*                                                                         *)
(* The repository holds two editions of the script:                        *)
(*   "v0205"  src/Zelda64_Seqvol_Editor.py  (CURRENT_VERSION 2025.02.05),  *)
(*            decoder written as one if/elif chain (PARSE_SEQ);            *)
(*   "v0424"  src/unnamed/part_000          (CURRENT_VERSION 2025.04.24),  *)
(*            decoder driven by the SEQ_MESSAGES table (parse_seq).        *)
(* Both are modelled; the variable impl says which one is running.         *)
(*                                                                         *)
(* A file is a sequence of bytes; byte address a is element a + 1.         *)
(***************************************************************************)
EXTENDS Integers, Sequences, FiniteSets, TLC

\* ------------------------------------------------------------------------
\* Bounds of the model
\* ------------------------------------------------------------------------
\* longest sequence file that is explored
MaxLen == 4
\* longest sequence file inside an archive that is explored
MaxArchiveLen == 4
\* longest sequence file that is explored for the edits: room for two
\* mstrvol and a conditional jump behind the byte v0424 passes over
MaxEditLen == 7

\* ------------------------------------------------------------------------
\* Inputs
\* ------------------------------------------------------------------------
\* byte values the explored files are made of: testchan (no argument),
\* an opcode without table entry, the two opcodes with a version_check
\* (0xC2, 0xC3), mstrvol, reqjump, eqjump, delay, end
ByteAlphabet == {0, 16, 194, 195, 219, 243, 250, 253, 255}

Impls == {"v0205", "v0424"}

\* class SeqVersion
SeqVersion == {"OOT", "MM"}

Min(a, b) == IF a < b THEN a ELSE b

RECURSIVE SeqsUpTo(_, _)
SeqsUpTo(S, n) ==
  IF n = 0 THEN {<<>>}
  ELSE LET shorter == SeqsUpTo(S, n - 1)
       IN  shorter \cup {Append(s, b) : s \in {t \in shorter : Len(t) = n - 1}, b \in S}

\* ------------------------------------------------------------------------
\* Formatting of the records (get_msg_string / GET_MSG_STRING)
\* A string is a sequence of one-character strings.
\* ------------------------------------------------------------------------
HexChars == <<"0", "1", "2", "3", "4", "5", "6", "7",
              "8", "9", "A", "B", "C", "D", "E", "F">>

\* hex(n)[2:].upper(): the digits of n, most significant first, no padding
RECURSIVE HexStr(_)
HexStr(n) ==
  IF n < 16 THEN <<HexChars[n + 1]>>
  ELSE Append(HexStr(n \div 16), HexChars[(n % 16) + 1])

\* the format width {:0wX}: pad with zeros on the left up to w characters
RECURSIVE ZFill(_, _)
ZFill(s, w) == IF Len(s) >= w THEN s ELSE ZFill(<<"0">> \o s, w)

\* s[-k:]
LastChars(s, k) == IF Len(s) <= k THEN s ELSE SubSeq(s, Len(s) - k + 1, Len(s))

\* v0424: f'@{addr:04X}'[-5:]
format_addr(addr) == LastChars(<<"@">> \o ZFill(HexStr(addr), 4), 5)

\* an argument as the readers of v0424 return it: the tuple (value, size)
NoArg == [val |-> 0 - 1, size |-> "none"]
Arg(v, size) == [val |-> v, size |-> size]

\* v0424: one argument of format_args, 4 digits for u16 / s16, else 2
format_arg(arg) ==
  IF arg.size \in {"u16", "s16"} THEN ZFill(HexStr(arg.val), 4)
  ELSE ZFill(HexStr(arg.val), 2)

\* v0424: the record appended to SEQ_HEADER_OUTPUT: name, address, opcode
\* byte and the arguments that are not None (colour and padding left out)
get_msg_string(name, addr, msg, args) ==
  [name |-> name,
   addr |-> format_addr(addr),
   msg  |-> ZFill(HexStr(msg), 2),
   args |-> [i \in 1..Len(args) |-> format_arg(args[i])]]

\* v0205: address padded to four digits, message byte to two, arguments
\* printed with hex(arg)[2:], that is without padding
GET_MSG_STRING(name, addr, msg, args) ==
  [name |-> name,
   addr |-> <<"@">> \o ZFill(HexStr(addr), 4),
   msg  |-> ZFill(HexStr(msg), 2),
   args |-> [i \in 1..Len(args) |-> HexStr(args[i])]]

\* v0205: the fixed record of the 0xC2 branch
UnkMsgString ==
  [name |-> "unk_msg",
   addr |-> <<"@", "?", "?", "?", "?">>,
   msg  |-> <<"?", "?">>,
   args |-> << <<"?", "?">>, <<"?", "?">> >>]

\* ------------------------------------------------------------------------
\* Bytes of the file
\* ------------------------------------------------------------------------
\* the byte at address a of file f
ByteAt(f, a) == f[a + 1]

\* struct '>1H': big-endian unsigned 16 bit
U16(hi, lo) == 256 * hi + lo

\* a faulty test of the length byte, arglen & 0x08
HighBitMask08(b) == (b \div 8) % 2 = 1

\* arglen & 0x80
HighBit(b) == b >= 128

\* ------------------------------------------------------------------------
\* The opcode table of v0424 (SeqMessage, SEQ_MESSAGES)
\* byte_size 0 stands for None, list "none" for no extra_output_list,
\* version_check "none" for no version_check.
\* ------------------------------------------------------------------------
SeqMessage(name, read_func, byte_size, list, version_check) ==
  [name |-> name, read_func |-> read_func, byte_size |-> byte_size,
   list |-> list, version_check |-> version_check]

\* SEQ_MESSAGES.get(opcode) found nothing
NoMessage == SeqMessage("", "none", 0, "none", "none")

Plain(name, read_func, byte_size) ==
  SeqMessage(name, read_func, byte_size, "none", "none")

SEQ_MESSAGES(opcode) ==
  CASE opcode = 255 -> Plain("end", "read_msg", 1)
    [] opcode = 254 -> Plain("delay1", "read_msg", 1)
    [] opcode = 253 -> Plain("delay", "read_argvar", 0)
    [] opcode = 252 -> Plain("call", "read_u16", 3)
    [] opcode = 251 -> Plain("jump", "read_u16", 3)
    [] opcode = 250 -> SeqMessage("eqjump", "read_u16", 3, "EQJUMP_ADDR", "none")
    [] opcode = 249 -> SeqMessage("ltjump", "read_u16", 3, "LTJUMP_ADDR", "none")
    [] opcode = 248 -> Plain("loop", "read_u8", 2)
    [] opcode = 247 -> Plain("loopend", "read_msg", 1)
    [] opcode = 246 -> Plain("loopbreak", "read_msg", 1)
    [] opcode = 245 -> SeqMessage("gteqjump", "read_u16", 3, "GTEQJUMP_ADDR", "none")
    [] opcode = 244 -> Plain("rjump", "read_u8", 2)
    [] opcode = 243 -> SeqMessage("reqjump", "read_u8", 2, "REQJUMP_ADDR", "none")
    [] opcode = 242 -> SeqMessage("rltjump", "read_u8", 2, "RLTJUMP_ADDR", "none")
    [] opcode = 241 -> Plain("reservenotes", "read_u8", 2)
    [] opcode = 240 -> Plain("releasenotes", "read_u8", 2)
    [] opcode = 239 -> Plain("print3", "read_s16_u8", 4)
    [] opcode = 223 -> Plain("transpose", "read_u8", 2)
    [] opcode = 222 -> Plain("rtranspose", "read_u8", 2)
    [] opcode = 221 -> Plain("tempo", "read_u8", 2)
    [] opcode = 220 -> Plain("addtempo", "read_u8", 2)
    [] opcode = 219 -> SeqMessage("mstrvol", "read_u8", 2, "MSTR_VOL_ADDR", "none")
    [] opcode = 218 -> Plain("fade", "read_u8_u16", 4)
    [] opcode = 217 -> Plain("mstrexpression", "read_u8", 2)
    [] opcode = 215 -> Plain("enablechan", "read_u16", 3)
    [] opcode = 214 -> Plain("disablechan", "read_u16", 3)
    [] opcode = 213 -> Plain("mutescale", "read_u8", 2)
    [] opcode = 212 -> Plain("mute", "read_msg", 1)
    [] opcode = 211 -> Plain("mutebhv", "read_u8", 2)
    [] opcode = 210 -> Plain("loadshortvel", "read_u16", 3)
    [] opcode = 209 -> Plain("loadshortgate", "read_u16", 3)
    [] opcode = 208 -> Plain("notealloc", "read_u8", 2)
    [] opcode = 206 -> Plain("rand", "read_u8", 2)
    [] opcode = 205 -> Plain("dyncall", "read_u16", 3)
    [] opcode = 204 -> Plain("load", "read_u8", 2)
    [] opcode = 201 -> Plain("and", "read_u8", 2)
    [] opcode = 200 -> Plain("sub", "read_u8", 2)
    [] opcode = 199 -> Plain("storeseq", "read_u8_u16", 4)
    [] opcode = 198 -> Plain("stop", "read_msg", 1)
    [] opcode = 197 -> Plain("scriptctr", "read_u16", 3)
    [] opcode = 196 -> Plain("callseq", "read_u8x2", 3)
    [] opcode = 195 -> SeqMessage("mutechan", "read_u16", 3, "none", "MM")
    [] opcode = 194 -> SeqMessage("unk_msg", "lambda", 3, "none", "MM")
    [] opcode \in 0..15 -> Plain("testchan", "read_msg", 1)
    [] opcode \in 64..79 -> Plain("stopchan", "read_msg", 1)
    [] opcode \in 80..95 -> Plain("subio", "read_msg", 1)
    [] opcode \in 96..111 -> Plain("loadres", "read_u8x2", 3)
    [] opcode \in 112..127 -> Plain("storeio", "read_msg", 1)
    [] opcode \in 128..143 -> Plain("loadio", "read_msg", 1)
    [] opcode \in 144..159 -> Plain("loadchan", "read_u16", 3)
    [] opcode \in 160..175 -> Plain("rloadchan", "read_u16", 3)
    [] opcode \in 176..191 -> Plain("loadseq", "read_u8_u16", 4)
    [] OTHER -> NoMessage

\* ------------------------------------------------------------------------
\* The argument readers (read_msg ... read_s16_u8; READ_MSG ... READ_S16_U8)
\* ------------------------------------------------------------------------
\* number of bytes the reader reads from the opcode address: seq.read(n)
ReadLen(read_func, arglen) ==
  CASE read_func = "read_msg" -> 1
    [] read_func = "read_argvar" -> IF HighBit(arglen) THEN 3 ELSE 2
    [] read_func = "read_u8" -> 2
    [] read_func = "read_u8x2" -> 3
    [] read_func = "read_u8_u16" -> 4
    [] read_func = "read_u16" -> 3
    [] read_func = "read_s16_u8" -> 4

\* the MessageData a reader returns for the n = ReadLen bytes at offset;
\* arg_addr 0 - 1 stands for None. struct reads '>1H' as unsigned also in
\* read_s16_u8, which only labels the value 's16'.
MessageData(arg_addr_1, arg_addr_2, msg_byte, arg_1, arg_2, pos) ==
  [arg_addr_1 |-> arg_addr_1, arg_addr_2 |-> arg_addr_2, msg_byte |-> msg_byte,
   arg_1 |-> arg_1, arg_2 |-> arg_2, pos |-> pos]

ReadMessage(f, offset, read_func, arglen) ==
  LET b(i) == ByteAt(f, offset + i)
  IN CASE read_func = "read_msg" ->
            MessageData(0 - 1, 0 - 1, b(0), NoArg, NoArg, 2)
       [] read_func = "read_argvar" ->
            IF HighBit(arglen)
            THEN MessageData(offset + 1, 0 - 1, b(0), Arg(U16(b(1), b(2)), "u16"), NoArg, 3)
            ELSE MessageData(offset + 1, 0 - 1, b(0), Arg(b(1), "u8"), NoArg, 2)
       [] read_func = "read_u8" ->
            MessageData(offset + 1, 0 - 1, b(0), Arg(b(1), "u8"), NoArg, 2)
       [] read_func = "read_u8x2" ->
            MessageData(offset + 1, offset + 2, b(0), Arg(b(1), "u8"), Arg(b(2), "u8"), 2)
       [] read_func = "read_u8_u16" ->
            MessageData(offset + 1, offset + 2, b(0), Arg(b(1), "u8"),
                        Arg(U16(b(2), b(3)), "u16"), 2)
       [] read_func = "read_u16" ->
            MessageData(offset + 1, 0 - 1, b(0), Arg(U16(b(1), b(2)), "u16"), NoArg, 2)
       [] read_func = "read_s16_u8" ->
            MessageData(offset + 1, offset + 3, b(0), Arg(U16(b(1), b(2)), "s16"),
                        Arg(b(3), "u8"), 2)

\* the arguments of a MessageData that are not None, in order
ArgsOf(msg_data) ==
  (IF msg_data.arg_1 = NoArg THEN <<>> ELSE <<msg_data.arg_1>>)
  \o (IF msg_data.arg_2 = NoArg THEN <<>> ELSE <<msg_data.arg_2>>)

\* ------------------------------------------------------------------------
\* The branches of the if/elif chain of v0205 (PARSE_SEQ)
\* read_func "none": the branch reads nothing; advance: the pos += of the
\* branch (0: break, or taken from READ_ARGVAR); collect: which address the
\* branch appends to list ("msg_addr": seq.tell() - 1, "arg_addr": the
\* reader's arg_addr); record: how the branch builds its msg_string.
\* The names printed are those of SEQ_MESSAGES.
\* ------------------------------------------------------------------------
Branch(read_func, advance, list, collect, record) ==
  [read_func |-> read_func, advance |-> advance, list |-> list,
   collect |-> collect, record |-> record]

Simple(read_func, advance) == Branch(read_func, advance, "none", "none", "msg")

PARSE_SEQ_branch(byte, version) ==
  CASE byte = 255 -> Simple("read_msg", 0)
    [] byte \in {254, 247, 246, 212, 198} -> Simple("read_msg", 1)
    [] byte = 253 -> Simple("read_argvar", 0)
    [] byte \in {252, 251, 215, 214, 210, 209, 205, 197} -> Simple("read_u16", 3)
    [] byte = 250 -> Branch("read_u16", 3, "EQJUMP_ADDR", "msg_addr", "msg")
    [] byte = 249 -> Branch("read_u16", 3, "LTJUMP_ADDR", "msg_addr", "msg")
    [] byte = 245 -> Branch("read_u16", 3, "GTEQJUMP_ADDR", "msg_addr", "msg")
    [] byte \in {248, 244, 241, 240, 223, 222, 221, 220, 217, 213, 211,
                 208, 206, 204, 201, 200} -> Simple("read_u8", 2)
    [] byte = 243 -> Branch("read_u8", 2, "REQJUMP_ADDR", "msg_addr", "msg")
    [] byte = 242 -> Branch("read_u8", 2, "RLTJUMP_ADDR", "msg_addr", "msg")
    [] byte = 239 -> Simple("read_s16_u8", 4)
    [] byte = 219 -> Branch("read_u8", 2, "MSTR_VOL_ADDR", "arg_addr", "msg")
    [] byte = 218 -> Branch("read_u8_u16", 3, "none", "none", "fade")
    [] byte = 199 -> Simple("read_u8_u16", 4)
    [] byte = 196 -> Simple("read_u8x2", 3)
    [] byte = 195 /\ version = "MM" -> Simple("read_u16", 3)
    [] byte = 194 /\ version = "MM" -> Branch("none", 3, "none", "none", "unk")
    [] byte \in 0..15 -> Simple("read_msg", 1)
    [] byte \in 64..79 -> Simple("read_msg", 1)
    [] byte \in 80..95 -> Simple("read_msg", 1)
    [] byte \in 96..111 -> Simple("read_u8x2", 3)
    [] byte \in 112..127 -> Simple("read_msg", 1)
    [] byte \in 128..143 -> Simple("read_msg", 1)
    [] byte \in 144..159 -> Simple("read_u16", 3)
    [] byte \in 160..175 -> Simple("read_u16", 3)
    [] byte \in 176..191 -> Simple("read_u8_u16", 4)
    [] OTHER -> Branch("none", 1, "none", "none", "none")

\* ------------------------------------------------------------------------
\* The decode pass, one loop iteration at a time
\* A pass p: cursor is the position of the file handle (seq.tell()), pos
\* the local pos, out and lists the module-level SEQ_HEADER_OUTPUT and
\* address lists, status "run" | "end" (break on 0xFF) | "eof" (the loop
\* condition read nothing) | "raised" (an exception ended the pass).
\* steps records, for every iteration of the loop body, where the opcode
\* was read (at), the pos += of the iteration (adv; 1 for a byte skipped by
\* continue, 0 for the break and for an exception) and its kind: "rec" (a
\* record was appended), "skip", "end" (the break) or "raise".
\* ------------------------------------------------------------------------
ListNames == {"MSTR_VOL_ADDR", "JUMP_ADDR", "EQJUMP_ADDR", "LTJUMP_ADDR",
              "GTEQJUMP_ADDR", "RJUMP_ADDR", "REQJUMP_ADDR", "RLTJUMP_ADDR"}

EmptyLists == [n \in ListNames |-> <<>>]

Step(at, adv, kind) == [at |-> at, adv |-> adv, kind |-> kind]

\* pos = self.pos; byte = seq.read(1), on a handle just opened
ParseStart(f, out, lists) ==
  [cursor |-> Min(1, Len(f)), pos |-> 0, out |-> out, lists |-> lists,
   steps |-> <<>>, status |-> "run"]

\* msg.extra_output_list.append(arg_addr_1), and arg_addr_2 when it is set
Collect(lists, msg, msg_data) ==
  IF msg.list = "none" THEN lists
  ELSE LET one == [lists EXCEPT ![msg.list] = Append(@, msg_data.arg_addr_1)]
       IN IF msg_data.arg_addr_2 > 0
          THEN [one EXCEPT ![msg.list] = Append(@, msg_data.arg_addr_2)]
          ELSE one

\* v0424: one iteration of the while loop of parse_seq
parse_seq(f, version, p) ==
  IF p.cursor >= Len(f) THEN [p EXCEPT !.status = "eof"]
  ELSE
    LET pos    == p.cursor
        opcode == ByteAt(f, pos)
        msg    == SEQ_MESSAGES(opcode)
        read   == [p EXCEPT !.cursor = pos + 1, !.pos = pos]
    IN
    IF msg = NoMessage \/ (msg.version_check # "none" /\ msg.version_check # version)
    THEN [read EXCEPT !.steps = Append(@, Step(pos, 1, "skip"))]
    ELSE IF pos + 1 >= Len(f)
    THEN [read EXCEPT !.status = "raised",
                      !.steps = Append(@, Step(pos, 0, "raise"))]
    ELSE IF msg.read_func = "lambda"
    THEN [read EXCEPT !.cursor = pos + 2, !.status = "raised",
                      !.steps = Append(@, Step(pos, 0, "raise"))]
    ELSE
      LET arglen == ByteAt(f, pos + 1)
          n      == ReadLen(msg.read_func, arglen)
      IN
      IF pos + n > Len(f)
      THEN [read EXCEPT !.cursor = Len(f), !.status = "raised",
                        !.steps = Append(@, Step(pos, 0, "raise"))]
      ELSE
        LET msg_data == ReadMessage(f, pos, msg.read_func, arglen)
            record   == get_msg_string(msg.name, pos, opcode, ArgsOf(msg_data))
            adv      == IF msg.byte_size # 0 THEN msg.byte_size ELSE msg_data.pos
        IN [cursor |-> pos + n,
            pos    |-> IF opcode = 255 THEN pos ELSE pos + adv,
            out    |-> Append(p.out, record),
            lists  |-> Collect(p.lists, msg, msg_data),
            steps  |-> Append(p.steps, IF opcode = 255 THEN Step(pos, 0, "end")
                                       ELSE Step(pos, adv, "rec")),
            status |-> IF opcode = 255 THEN "end" ELSE "run"]

\* v0205: one iteration of the while loop of PARSE_SEQ
PARSE_SEQ(f, version, p) ==
  IF p.cursor >= Len(f) THEN [p EXCEPT !.status = "eof"]
  ELSE IF p.pos >= Len(f)
  THEN [p EXCEPT !.cursor = p.pos, !.pos = p.pos + 1,
                 !.steps = Append(@, Step(p.pos, 1, "skip"))]
  ELSE
    LET pos  == p.pos
        byte == ByteAt(f, pos)
        br   == PARSE_SEQ_branch(byte, version)
        name == SEQ_MESSAGES(byte).name
    IN
    IF br.read_func = "none"
    THEN [p EXCEPT !.cursor = pos + 1, !.pos = pos + br.advance,
                   !.out = IF br.record = "unk" THEN Append(@, UnkMsgString) ELSE @,
                   !.steps = Append(@, Step(pos, br.advance,
                                            IF br.record = "unk" THEN "rec" ELSE "skip"))]
    ELSE
      LET arglen == IF br.read_func = "read_argvar" /\ pos + 1 < Len(f)
                    THEN ByteAt(f, pos + 1) ELSE 0
          n      == ReadLen(br.read_func, arglen)
      IN
      IF pos + n > Len(f)
      THEN [p EXCEPT !.cursor = Len(f), !.status = "raised",
                     !.steps = Append(@, Step(pos, 0, "raise"))]
      ELSE
        LET msg_data == ReadMessage(f, pos, br.read_func, arglen)
            args     == ArgsOf(msg_data)
            record   == IF br.record = "fade"
                        THEN GET_MSG_STRING(name, pos, msg_data.arg_1.val,
                                            <<msg_data.arg_2.val>>)
                        ELSE GET_MSG_STRING(name, pos, msg_data.msg_byte,
                                            [i \in 1..Len(args) |-> args[i].val])
            adv      == IF br.read_func = "read_argvar" THEN n ELSE br.advance
            addr     == IF br.collect = "msg_addr" THEN pos ELSE msg_data.arg_addr_1
        IN [cursor |-> pos + n,
            pos    |-> pos + adv,
            out    |-> Append(p.out, record),
            lists  |-> IF br.list = "none" THEN p.lists
                       ELSE [p.lists EXCEPT ![br.list] = Append(@, addr)],
            steps  |-> Append(p.steps, IF byte = 255 THEN Step(pos, 0, "end")
                                       ELSE Step(pos, adv, "rec")),
            status |-> IF byte = 255 THEN "end" ELSE "run"]

\* a faulty iteration, SEQ_MESSAGES[opcode] in place of .get(opcode) (a raise
\* in the final else of the chain): an opcode without entry is a KeyError
ParseIterKeyError(impl, f, version, p) ==
  LET q == IF impl = "v0424" THEN parse_seq(f, version, p) ELSE PARSE_SEQ(f, version, p)
  IN IF Len(q.steps) > Len(p.steps) /\ q.steps[Len(q.steps)].kind = "skip"
     THEN [q EXCEPT !.status = "raised"]
     ELSE q

\* a faulty iteration that ignores the version gate: the entries marked
\* version_check = SeqVersion.MM are decoded whatever the version
ParseIterIgnoresGate(impl, f, version, p) ==
  IF impl = "v0424" THEN parse_seq(f, "MM", p) ELSE PARSE_SEQ(f, "MM", p)

\* a faulty iteration that inserts the record at the front of
\* SEQ_HEADER_OUTPUT in place of appending it
ParseIterInsertsFirst(impl, f, version, p) ==
  LET q == IF impl = "v0424" THEN parse_seq(f, version, p) ELSE PARSE_SEQ(f, version, p)
  IN IF Len(q.out) > Len(p.out)
     THEN [q EXCEPT !.out = <<q.out[Len(q.out)]>> \o p.out]
     ELSE q

\* one iteration of the decode loop of the running edition
ParseIter(impl, f, version, p) ==
  IF impl = "v0424" THEN parse_seq(f, version, p) ELSE PARSE_SEQ(f, version, p)

\* the whole pass: iterate until the loop is left
RECURSIVE ParseRun(_, _, _, _)
ParseRun(impl, f, version, p) ==
  IF p.status # "run" THEN p ELSE ParseRun(impl, f, version, ParseIter(impl, f, version, p))

\* a pass of a fresh process over file f
Decode(impl, f, version) == ParseRun(impl, f, version, ParseStart(f, <<>>, EmptyLists))

\* ------------------------------------------------------------------------
\* The patcher (write_bin, fix_jump, fix_rjump) and the edits
\* ------------------------------------------------------------------------
\* seq.seek(addr); seq.write(b) with one byte b: overwrites the byte at
\* addr; a write at or past the end of the file extends it, zero filled
WriteByte(f, addr, b) ==
  IF addr < Len(f) THEN [f EXCEPT ![addr + 1] = b]
  ELSE f \o [i \in 1..(addr - Len(f)) |-> 0] \o <<b>>

\* a faulty write_bin, seq.seek(addr + 1): the byte lands one address late
write_bin_seeks_next(f, addr, value) == WriteByte(f, addr + 1, value)

\* a faulty write_bin whose value was packed with to_bytes(2, byteorder='big'):
\* two bytes are written, a zero and the value
write_bin_two_bytes(f, addr, value) == WriteByte(WriteByte(f, addr, 0), addr + 1, value)

write_bin(f, addr, value) == WriteByte(f, addr, value)

fix_jump(f, addr) == WriteByte(f, addr, 251)

fix_rjump(f, addr) == WriteByte(f, addr, 244)

\* a volume argument as check_vol returns it: an int 0..255, or the float of
\* a percentage 0..200
IntVol(v) == [pct |-> FALSE, v |-> v]
PctVol(v) == [pct |-> TRUE, v |-> v]
NoVol == [pct |-> FALSE, v |-> 0 - 1]

\* a faulty conversion, int() without math.ceil
FloorPercent(p) == (p * 127) \div 100

\* int(math.ceil(value / 100 * 127)) for a whole percentage
CeilPercent(p) == (p * 127 + 99) \div 100

\* ArgParser.check_input: the byte that is written
check_input(value) == IF value.pct THEN CeilPercent(value.v) ELSE value.v

\* the writes, in order, of a loop that patches every address of addrs
WritesOf(addrs, b) == [i \in 1..Len(addrs) |-> [addr |-> addrs[i], byte |-> b]]

\* a faulty auto_seq_edit that leaves its loop after the first address
auto_seq_edit_first_only(f, addrs, value) ==
  IF addrs = <<>> THEN f ELSE write_bin(f, Head(addrs), check_input(value))

\* auto_seq_edit: for addr in MSTR_VOL_ADDR: write_bin(seq, addr, input_vol)
RECURSIVE auto_seq_edit(_, _, _)
auto_seq_edit(f, addrs, value) ==
  IF addrs = <<>> THEN f
  ELSE auto_seq_edit(write_bin(f, Head(addrs), check_input(value)), Tail(addrs), value)

\* a faulty jump_types that leaves out the two lists of relative jumps
jump_types_absolute_only(impl) ==
  << <<"EQJUMP_ADDR", "fix_jump">>, <<"LTJUMP_ADDR", "fix_jump">>,
     <<"GTEQJUMP_ADDR", "fix_jump">> >>

\* the jump_types of main (v0424): each list with its fix_func;
\* main of v0205 calls FIX_JUMP for all five lists
jump_types(impl) ==
  << <<"EQJUMP_ADDR", "fix_jump">>, <<"LTJUMP_ADDR", "fix_jump">>,
     <<"GTEQJUMP_ADDR", "fix_jump">>,
     <<"REQJUMP_ADDR", IF impl = "v0424" THEN "fix_rjump" ELSE "fix_jump">>,
     <<"RLTJUMP_ADDR", IF impl = "v0424" THEN "fix_rjump" ELSE "fix_jump">> >>

\* for addr in addr_list: fix_func(seq, addr)
RECURSIVE FixList(_, _, _)
FixList(f, addrs, fix_func) ==
  IF addrs = <<>> THEN f
  ELSE FixList(IF fix_func = "fix_rjump" THEN fix_rjump(f, Head(addrs))
               ELSE fix_jump(f, Head(addrs)),
               Tail(addrs), fix_func)

\* the if ARG_PARSER.fix_jumps block of main: every list of types in turn
RECURSIVE FixJumps(_, _, _)
FixJumps(f, lists, types) ==
  IF types = <<>> THEN f
  ELSE FixJumps(FixList(f, lists[Head(types)[1]], Head(types)[2]), lists, Tail(types))

\* the addresses that block patches, in order
RECURSIVE FixAddrs(_, _)
FixAddrs(lists, types) ==
  IF types = <<>> THEN <<>>
  ELSE lists[Head(types)[1]] \o FixAddrs(lists, Tail(types))

\* the writes at addrs as they are found in the patched file g
WrittenAt(g, addrs) == [i \in 1..Len(addrs) |-> [addr |-> addrs[i], byte |-> ByteAt(g, addrs[i])]]

\* ArgParser.convert_input: the byte for a line typed at the manual prompt,
\* 0 - 1 for None (the conversion raised and the except clause passed).
\* A line is modelled by its kind and number: "int" for text int() accepts,
\* "hex" for 0x text, "percent" for text ending in %, "text" for the rest.
Line(kind, v) == [kind |-> kind, v |-> v]

\* a faulty convert_input that packs the low byte of the number, bytes([n & 0xFF])
\* in place of n.to_bytes(1, ...), so that no number raises
convert_input_low_byte(manual_vol) ==
  LET n == IF manual_vol.kind = "percent" THEN CeilPercent(manual_vol.v) ELSE manual_vol.v
  IN IF manual_vol.kind \in {"percent", "hex", "int"} THEN n % 256 ELSE 0 - 1

convert_input(manual_vol) ==
  LET n == IF manual_vol.kind = "percent" THEN CeilPercent(manual_vol.v) ELSE manual_vol.v
  IN IF manual_vol.kind \in {"percent", "hex", "int"} /\ n \in 0..255 THEN n ELSE 0 - 1

\* ------------------------------------------------------------------------
\* State
\* ------------------------------------------------------------------------
VARIABLES
  impl,          \* the edition that runs
  ext,           \* extension of the input file: "seq", "ootrs" or "mmrs"
  nseq,          \* number of sequence files inside the archive
  game_version,  \* ARG_PARSER.game_version
  file,          \* bytes of the sequence file that is opened
  orig,          \* the bytes of that file before the run
  pc,            \* where the main thread is
  parse,         \* the decode pass: handle position, pos, SEQ_HEADER_OUTPUT,
                 \* the address lists, and how the parser thread ended
  seq_file,      \* archive.seq_file: "None" or "set"
  lost,          \* exceptions raised inside a thread, which no one catches
  value,         \* ARG_PARSER.value
  fix_jumps,     \* ARG_PARSER.fix_jumps
  no_vol,        \* global no_vol
  fixed_jumps,   \* global fixed_jumps
  line,          \* the last line read by input()
  idx,           \* manual_seq_edit: index in MSTR_VOL_ADDR of the address asked
  writes,        \* every write to the file so far, in order
  new_archive,   \* repack_archive has produced the new archive
  exitcode,      \* exit status of the process, 0 - 1 while it runs
  first,         \* the result of the first pass, kept when a second one is run
  spinner        \* start_thread: the index i of the spinner frame to print

vars == <<impl, ext, nseq, game_version, file, orig, pc, parse, seq_file, lost,
          value, fix_jumps, no_vol, fixed_jumps, line, idx, writes, new_archive,
          exitcode, first, spinner>>

\* len(SPINNER_FRAMES)
LenSpinnerFrames == 56

inputs == <<impl, ext, nseq, orig>>

SEQ_HEADER_OUTPUT == parse.out
MSTR_VOL_ADDR == parse.lists.MSTR_VOL_ADDR
EQJUMP_ADDR == parse.lists.EQJUMP_ADDR
LTJUMP_ADDR == parse.lists.LTJUMP_ADDR
GTEQJUMP_ADDR == parse.lists.GTEQJUMP_ADDR
REQJUMP_ADDR == parse.lists.REQJUMP_ADDR
RLTJUMP_ADDR == parse.lists.RLTJUMP_ADDR

\* before SeqParser() exists there is no pass; the lists are created empty
NoPass == [cursor |-> 0, pos |-> 0, out |-> <<>>, lists |-> EmptyLists,
           steps |-> <<>>, status |-> "none"]

NoLine == Line("none", 0)

\* volumes given on the command line
Volumes == {IntVol(127), IntVol(255), PctVol(50)}

\* lines typed at the auto / manual / exit prompt
Answers == {"auto", "Auto", "AUTO", "manual", "Manual", "MANUAL",
            "exit", "Exit", "EXIT", "other"}

\* lines typed at the manual volume prompt
ManualLines == {Line("exit", 0), Line("int", 64), Line("int", 256),
                Line("percent", 50), Line("hex", 255), Line("text", 0),
                Line("int", 0 - 1), Line("percent", 201), Line("percent", 0 - 1)}

\* bytes of the sequence files inside the explored archives
ArchiveAlphabet == {16, 219, 250, 255}

InitWith(exts, nseqs, files) ==
  /\ impl \in Impls
  /\ ext \in exts
  /\ nseq \in nseqs
  /\ game_version \in SeqVersion
  /\ file \in files
  /\ orig = file
  /\ pc = "start"
  /\ parse = NoPass
  /\ seq_file = "None"
  /\ lost = {}
  /\ value = NoVol
  /\ fix_jumps = FALSE
  /\ no_vol = FALSE
  /\ fixed_jumps = FALSE
  /\ line = NoLine
  /\ idx = 0
  /\ writes = <<>>
  /\ new_archive = FALSE
  /\ exitcode = 0 - 1
  /\ first = NoPass
  /\ spinner = 0

\* the script is run on a sequence file
Init == InitWith({"seq"}, {0}, SeqsUpTo(ByteAlphabet, MaxLen))

\* byte values of the longer files explored for the edits: mstrvol,
\* reqjump, eqjump (also read as their arguments)
EditAlphabet == {219, 243, 250}

\* the script is run on a longer sequence file with volume and jump messages
InitEdit == InitWith({"seq"}, {0}, SeqsUpTo(EditAlphabet, MaxEditLen))

\* every volume check_vol lets through: an integer 0..0xFF, or a whole
\* percentage 0..200
AllVolumes == {IntVol(v) : v \in 0..255} \cup {PctVol(p) : p \in 0..200}

\* byte values of the files explored with every volume: mstrvol and end
VolumeAlphabet == {219, 255}

\* the script is run on a short file of volume messages
InitVolume == InitWith({"seq"}, {0}, SeqsUpTo(VolumeAlphabet, MaxLen))

\* byte values of the files explored for the lengths of the table:
\* testchan, callseq, fade, mstrvol, print3, rjump, jump, delay1
TableAlphabet == {0, 196, 218, 219, 239, 244, 251, 254}

\* the script is run on a short file of these messages
InitTable == InitWith({"seq"}, {0}, SeqsUpTo(TableAlphabet, MaxLen))

\* byte values of the files explored with the progress loop
ThreadAlphabet == {0, 219, 255}

\* the script is run on a short sequence file
InitThread == InitWith({"seq"}, {0}, SeqsUpTo(ThreadAlphabet, MaxLen))

\* the script is run on an .ootrs / .mmrs archive
InitArchive == InitWith({"ootrs", "mmrs"}, 0..2, SeqsUpTo(ArchiveAlphabet, MaxArchiveLen))

\* ------------------------------------------------------------------------
\* Actions
\* The command line is read before anything else runs, but value and
\* fix_jumps are not looked at before the edits: the model draws them where
\* they are first read.
\* ------------------------------------------------------------------------
\* __main__, input that is no archive: seq_file = filepath; main()
StartSeq ==
  /\ pc = "start"
  /\ ext = "seq"
  /\ pc' = "open"
  /\ UNCHANGED <<spinner, inputs, game_version, file, parse, seq_file, lost, value, fix_jumps,
                 no_vol, fixed_jumps, line, idx, writes, new_archive, exitcode, first>>

\* __main__, archive: the extension sets the game version, then the unpack
\* thread is started
StartArchive ==
  /\ pc = "start"
  /\ ext \in {"ootrs", "mmrs"}
  /\ game_version' = IF ext = "ootrs" /\ game_version # "OOT" THEN "OOT" ELSE "MM"
  /\ pc' = "unpack"
  /\ UNCHANGED <<spinner, inputs, file, parse, seq_file, lost, value, fix_jumps,
                 no_vol, fixed_jumps, line, idx, writes, new_archive, exitcode, first>>

\* ArchiveHandler.unpack_archive, run as a thread by start_thread: the first
\* sequence file listed is kept in seq_file, a second one raises inside the
\* thread; start_thread joins the thread and returns either way
unpack_archive ==
  /\ pc = "unpack"
  /\ seq_file' = IF nseq = 0 THEN "None" ELSE "set"
  /\ lost' = IF nseq > 1 THEN lost \cup {"unpack_archive"} ELSE lost
  /\ pc' = "open"
  /\ UNCHANGED <<spinner, inputs, game_version, file, parse, value, fix_jumps,
                 no_vol, fixed_jumps, line, idx, writes, new_archive, exitcode, first>>

\* main: open the sequence and start the parser thread, which reads one byte
\* before its loop. With an archive that holds no sequence file the name
\* seq_file is not defined: NameError, file_open_failure, sys.exit(1)
open_sequence ==
  /\ pc = "open"
  /\ IF ext # "seq" /\ seq_file = "None"
     THEN /\ exitcode' = 1
          /\ pc' = "exit"
          /\ UNCHANGED parse
     ELSE /\ parse' = ParseStart(file, parse.out, parse.lists)
          /\ pc' = "parse"
          /\ UNCHANGED exitcode
  /\ UNCHANGED <<spinner, inputs, game_version, file, seq_file, lost, value, fix_jumps,
                 no_vol, fixed_jumps, line, idx, writes, new_archive, first>>

\* a faulty parser thread that seeks back to an opcode it does not decode
\* and so reads it again on every turn of the loop
parser_thread_rereads ==
  /\ parse.status = "run"
  /\ parse' = LET q == ParseIter(impl, file, game_version, parse)
              IN IF q.status = "run" /\ q.steps[Len(q.steps)].kind = "skip"
                 THEN parse ELSE q
  /\ lost' = IF parse'.status = "raised" THEN lost \cup {"parse_seq"} ELSE lost
  /\ UNCHANGED <<spinner, inputs, game_version, file, pc, seq_file, value, fix_jumps,
                 no_vol, fixed_jumps, line, idx, writes, new_archive, exitcode, first>>

\* the parser thread: one iteration of the decode loop; an exception ends
\* the thread and reaches no except clause of the main thread
parser_thread ==
  /\ parse.status = "run"
  /\ parse' = ParseIter(impl, file, game_version, parse)
  /\ lost' = IF parse'.status = "raised" THEN lost \cup {"parse_seq"} ELSE lost
  /\ UNCHANGED <<spinner, inputs, game_version, file, pc, seq_file, value, fix_jumps,
                 no_vol, fixed_jumps, line, idx, writes, new_archive, exitcode, first>>

\* start_thread, one turn of while thread.is_alive(): a frame is printed
\* and i moves on
start_thread_poll ==
  /\ pc = "parse"
  /\ parse.status = "run"
  /\ spinner' = (spinner + 1) % LenSpinnerFrames
  /\ UNCHANGED <<inputs, game_version, file, pc, parse, seq_file, lost, value, fix_jumps,
                 no_vol, fixed_jumps, line, idx, writes, new_archive, exitcode, first>>

\* a faulty start_thread that returns without waiting for the thread
start_thread_no_wait ==
  /\ pc = "parse"
  /\ pc' = "parsed"
  /\ spinner' = 0
  /\ UNCHANGED <<inputs, game_version, file, parse, seq_file, lost, value, fix_jumps,
                 no_vol, fixed_jumps, line, idx, writes, new_archive, exitcode, first>>

\* start_thread: the thread is no longer alive; join, print the records,
\* and the local i is gone
start_thread ==
  /\ pc = "parse"
  /\ parse.status # "run"
  /\ pc' = "parsed"
  /\ spinner' = 0
  /\ UNCHANGED <<inputs, game_version, file, parse, seq_file, lost, value, fix_jumps,
                 no_vol, fixed_jumps, line, idx, writes, new_archive, exitcode, first>>

\* the automatic edit with the volume of the command line
AutoEdit(v) ==
  /\ value' = v
  /\ file' = auto_seq_edit(file, MSTR_VOL_ADDR, v)
  /\ writes' = writes \o WritesOf(MSTR_VOL_ADDR, check_input(v))
  /\ pc' = "jumps"

\* main: several master volume messages, ask auto / manual / exit
MainAsk ==
  /\ pc = "parsed"
  /\ Len(MSTR_VOL_ADDR) > 1
  /\ pc' = "ask"
  /\ UNCHANGED <<spinner, inputs, game_version, file, parse, seq_file, lost, value, fix_jumps,
                 no_vol, fixed_jumps, line, idx, writes, new_archive, exitcode, first>>

\* main: one master volume message, auto_seq_edit
MainAuto ==
  /\ pc = "parsed"
  /\ Len(MSTR_VOL_ADDR) = 1
  /\ \E v \in Volumes : AutoEdit(v)
  /\ UNCHANGED <<spinner, inputs, game_version, parse, seq_file, lost, fix_jumps,
                 no_vol, fixed_jumps, line, idx, new_archive, exitcode, first>>

\* main: one master volume message, auto_seq_edit with any volume of the
\* command line
MainAutoAny ==
  /\ pc = "parsed"
  /\ Len(MSTR_VOL_ADDR) = 1
  /\ \E v \in AllVolumes : AutoEdit(v)
  /\ UNCHANGED <<spinner, inputs, game_version, parse, seq_file, lost, fix_jumps,
                 no_vol, fixed_jumps, line, idx, new_archive, exitcode, first>>

\* main: no master volume message, warning
MainNoVol ==
  /\ pc = "parsed"
  /\ Len(MSTR_VOL_ADDR) = 0
  /\ no_vol' = TRUE
  /\ pc' = "jumps"
  /\ UNCHANGED <<spinner, inputs, game_version, file, parse, seq_file, lost, value, fix_jumps,
                 fixed_jumps, line, idx, writes, new_archive, exitcode, first>>

\* the prompt: answer in options[0:3]
AnswerAuto ==
  /\ pc = "ask"
  /\ \E a \in {"auto", "Auto", "AUTO"}, v \in Volumes :
       /\ line' = Line(a, 0)
       /\ AutoEdit(v)
  /\ UNCHANGED <<spinner, inputs, game_version, parse, seq_file, lost, fix_jumps,
                 no_vol, fixed_jumps, idx, new_archive, exitcode, first>>

\* the prompt: answer in options[3:6]
AnswerManual ==
  /\ pc = "ask"
  /\ \E a \in {"manual", "Manual", "MANUAL"} : line' = Line(a, 0)
  /\ idx' = 1
  /\ pc' = "manual"
  /\ UNCHANGED <<spinner, inputs, game_version, file, parse, seq_file, lost, value, fix_jumps,
                 no_vol, fixed_jumps, writes, new_archive, exitcode, first>>

\* the prompt: answer in options[6:8], exit_msg, sys.exit(1)
AnswerExit ==
  /\ pc = "ask"
  /\ \E a \in {"exit", "Exit"} : line' = Line(a, 0)
  /\ exitcode' = 1
  /\ pc' = "exit"
  /\ UNCHANGED <<spinner, inputs, game_version, file, parse, seq_file, lost, value, fix_jumps,
                 no_vol, fixed_jumps, idx, writes, new_archive, first>>

\* the prompt: any other line, among them options[8] = 'EXIT': ask again
AnswerAgain ==
  /\ pc = "ask"
  /\ \E a \in Answers \ {"auto", "Auto", "AUTO", "manual", "Manual", "MANUAL",
                         "exit", "Exit"} : line' = Line(a, 0)
  /\ UNCHANGED <<spinner, inputs, game_version, file, parse, seq_file, lost, value, fix_jumps,
                 no_vol, fixed_jumps, idx, pc, writes, new_archive, exitcode, first>>

\* a faulty manual_seq_edit that writes every value at the first address
manual_seq_edit_first_addr ==
  /\ pc = "manual"
  /\ \E manual_vol \in ManualLines :
       LET input_vol == convert_input(manual_vol)
           addr == MSTR_VOL_ADDR[1]
       IN /\ line' = manual_vol
          /\ IF manual_vol.kind = "exit"
             THEN /\ exitcode' = 1
                  /\ pc' = "exit"
                  /\ UNCHANGED <<file, writes, idx>>
             ELSE IF input_vol >= 0
             THEN /\ file' = write_bin(file, addr, input_vol)
                  /\ writes' = Append(writes, [addr |-> addr, byte |-> input_vol])
                  /\ idx' = idx + 1
                  /\ pc' = IF idx = Len(MSTR_VOL_ADDR) THEN "jumps" ELSE "manual"
                  /\ UNCHANGED exitcode
             ELSE UNCHANGED <<file, writes, idx, pc, exitcode>>
  /\ UNCHANGED <<spinner, inputs, game_version, parse, seq_file, lost, value, fix_jumps,
                 no_vol, fixed_jumps, new_archive, first>>

\* manual_seq_edit: one line read for the address MSTR_VOL_ADDR[idx]
manual_seq_edit ==
  /\ pc = "manual"
  /\ \E manual_vol \in ManualLines :
       LET input_vol == convert_input(manual_vol)
           addr == MSTR_VOL_ADDR[idx]
       IN /\ line' = manual_vol
          /\ IF manual_vol.kind = "exit"
             THEN /\ exitcode' = 1
                  /\ pc' = "exit"
                  /\ UNCHANGED <<file, writes, idx>>
             ELSE IF input_vol >= 0
             THEN /\ file' = write_bin(file, addr, input_vol)
                  /\ writes' = Append(writes, [addr |-> addr, byte |-> input_vol])
                  /\ idx' = idx + 1
                  /\ pc' = IF idx = Len(MSTR_VOL_ADDR) THEN "jumps" ELSE "manual"
                  /\ UNCHANGED exitcode
             ELSE UNCHANGED <<file, writes, idx, pc, exitcode>>
  /\ UNCHANGED <<spinner, inputs, game_version, parse, seq_file, lost, value, fix_jumps,
                 no_vol, fixed_jumps, new_archive, first>>

\* main: if ARG_PARSER.fix_jumps: patch the five lists; then main returns
main_fix_jumps ==
  /\ pc = "jumps"
  /\ \E fj \in BOOLEAN :
       /\ fix_jumps' = fj
       /\ file' = IF fj THEN FixJumps(file, parse.lists, jump_types(impl)) ELSE file
       /\ writes' = IF fj THEN writes \o WrittenAt(file', FixAddrs(parse.lists, jump_types(impl)))
                    ELSE writes
       /\ fixed_jumps' = fj
  /\ pc' = "return"
  /\ UNCHANGED <<spinner, inputs, game_version, parse, seq_file, lost, value,
                 no_vol, line, idx, new_archive, exitcode, first>>

\* a faulty end of __main__ whose incomplete_msg ends with sys.exit(1)
Complete_incomplete_exits_one ==
  /\ pc = "return"
  /\ ext = "seq"
  /\ exitcode' = IF no_vol THEN 1 ELSE 0
  /\ pc' = "exit"
  /\ UNCHANGED <<spinner, inputs, game_version, file, parse, seq_file, lost, value, fix_jumps,
                 no_vol, fixed_jumps, line, idx, writes, new_archive, first>>

\* __main__ after main(): complete_msg / incomplete_msg, sys.exit()
Complete ==
  /\ pc = "return"
  /\ ext = "seq"
  /\ exitcode' = 0
  /\ pc' = "exit"
  /\ UNCHANGED <<spinner, inputs, game_version, file, parse, seq_file, lost, value, fix_jumps,
                 no_vol, fixed_jumps, line, idx, writes, new_archive, first>>

\* __main__ after main(), archive: repack_archive, then the final message
repack_archive ==
  /\ pc = "return"
  /\ ext \in {"ootrs", "mmrs"}
  /\ new_archive' = TRUE
  /\ exitcode' = 0
  /\ pc' = "exit"
  /\ UNCHANGED <<spinner, inputs, game_version, file, parse, seq_file, lost, value, fix_jumps,
                 no_vol, fixed_jumps, line, idx, writes, first>>

\* a second decode pass in the same process, over the unmodified file: a new
\* SeqParser and a newly opened handle, as main makes them, and parse_seq
\* run to its end. The module-level lists are those of the first pass.
SecondPass ==
  /\ pc = "parsed"
  /\ first' = parse
  /\ parse' = ParseRun(impl, file, game_version, ParseStart(file, parse.out, parse.lists))
  /\ pc' = "parsed2"
  /\ UNCHANGED <<spinner, inputs, game_version, file, seq_file, lost, value, fix_jumps,
                 no_vol, fixed_jumps, line, idx, writes, new_archive, exitcode>>

Common ==
  \/ open_sequence \/ parser_thread \/ start_thread
  \/ MainAsk \/ MainAuto \/ MainNoVol
  \/ AnswerAuto \/ AnswerManual \/ AnswerExit \/ AnswerAgain
  \/ manual_seq_edit \/ main_fix_jumps \/ SecondPass

Next == StartSeq \/ Common \/ Complete

NextArchive == StartArchive \/ unpack_archive \/ Common \/ repack_archive

Spec == Init /\ [][Next]_vars

SpecArchive == InitArchive /\ [][NextArchive]_vars

SpecEdit == InitEdit /\ [][Next]_vars

\* the runs in which the turns of the progress loop of start_thread are
\* steps of their own, on short files of testchan, mstrvol and end
NextThread == Next \/ start_thread_poll

SpecThread == InitThread /\ [][NextThread]_vars

\* the runs on the files of TableAlphabet
SpecTable == InitTable /\ [][Next]_vars

\* the runs with every volume the command line can give
NextVolume == Next \/ MainAutoAny

SpecVolume == InitVolume /\ [][NextVolume]_vars

\* byte values of the files explored for the end of the pass: an opcode
\* without entry, the gated unk_C2, mstrvol, delay (variable length), end
LiveAlphabet == {16, 194, 219, 253, 255}

\* the script is run on a short file of these bytes
InitLive == InitWith({"seq"}, {0}, SeqsUpTo(LiveAlphabet, MaxLen))

\* the parser thread is a started threading.Thread that nothing blocks: it
\* is scheduled again and again while its loop has an iteration to run
SpecLive == InitLive /\ [][Next]_vars /\ WF_vars(parser_thread)

\* ------------------------------------------------------------------------
\* Properties
\* ------------------------------------------------------------------------
\* the value of a string of hexadecimal digits
RECURSIVE HexVal(_)
HexVal(s) ==
  IF s = <<>> THEN 0
  ELSE 16 * HexVal(SubSeq(s, 1, Len(s) - 1))
       + ((CHOOSE d \in 1..16 : HexChars[d] = s[Len(s)]) - 1)

\* the address a record carries
AddrOf(record) == HexVal(Tail(record.addr))

\* the addresses of a sequence of steps, of records
StepAddrs(steps) == [i \in 1..Len(steps) |-> steps[i].at]
RecordAddrs(out) == [i \in 1..Len(out) |-> out[i].addr]

\* C1: once the jump fixes have been applied, every instruction the pass
\* decoded as a conditional absolute jump (0xFA, 0xF9, 0xF5) at address a
\* has 0xFB at a, and its target bytes at a + 1 and a + 2 are those of the
\* input
C1_AbsoluteJumpsFixed ==
  fixed_jumps =>
    \A i \in 1..Len(parse.steps) :
      LET a == parse.steps[i].at IN
      (parse.steps[i].kind = "rec" /\ ByteAt(orig, a) \in {250, 249, 245}) =>
        /\ ByteAt(file, a) = 251
        /\ ByteAt(file, a + 1) = ByteAt(orig, a + 1)
        /\ ByteAt(file, a + 2) = ByteAt(orig, a + 2)

\* C2: once the jump fixes have been applied, every instruction the pass
\* decoded as a conditional relative jump (0xF3, 0xF2) at address a has
\* 0xF4 at a, and its offset byte at a + 1 is that of the input
C2_RelativeJumpsFixed ==
  fixed_jumps =>
    \A i \in 1..Len(parse.steps) :
      LET a == parse.steps[i].at IN
      (parse.steps[i].kind = "rec" /\ ByteAt(orig, a) \in {243, 242}) =>
        /\ ByteAt(file, a) = 244
        /\ ByteAt(file, a + 1) = ByteAt(orig, a + 1)

IsMstrVol(record) == record.name = "mstrvol"

\* C3: when the volume edit is done (every address of MSTR_VOL_ADDR written
\* once, in order), decoding the patched bytes again gives, for the k-th
\* volume instruction, a record whose argument is the byte written at the
\* k-th collected address, and the same addresses for all steps and records
C3_VolumeRoundTrip ==
  pc = "jumps" =>
    LET again == Decode(impl, file, game_version)
        vols  == SelectSeq(again.out, IsMstrVol)
    IN /\ Len(writes) = Len(MSTR_VOL_ADDR)
       /\ Len(vols) = Len(writes)
       /\ \A k \in 1..Len(writes) :
            /\ writes[k].addr = MSTR_VOL_ADDR[k]
            /\ Len(vols[k].args) = 1
            /\ HexVal(vols[k].args[1]) = writes[k].byte
       /\ StepAddrs(again.steps) = StepAddrs(parse.steps)
       /\ RecordAddrs(again.out) = RecordAddrs(parse.out)
       /\ again.status = parse.status

\* a file whose volume instruction was patched with 0xFF, the opcode of end
C3_Witness ==
  /\ pc = "jumps"
  /\ impl = "v0424"
  /\ writes # <<>>
  /\ writes[1].byte = 255
  /\ ByteAt(file, writes[1].addr) = 255
  /\ ByteAt(orig, writes[1].addr) # 255

\* the length of the instruction at address a of f by the opcode table, 0
\* when the opcode has no entry for this version or the length byte of a
\* variable-length argument is missing
InstrLen(f, a, version) ==
  LET msg == SEQ_MESSAGES(ByteAt(f, a)) IN
  IF msg = NoMessage \/ msg.read_func = "lambda"
     \/ (msg.version_check # "none" /\ msg.version_check # version)
  THEN 0
  ELSE IF msg.read_func = "read_argvar"
  THEN IF a + 1 < Len(f) THEN ReadLen("read_argvar", ByteAt(f, a + 1)) ELSE 0
  ELSE ReadLen(msg.read_func, 0)

\* f, from address a on, is made of complete known instructions only and
\* its last byte is the opcode 0xFF of its only end instruction
RECURSIVE WellFormedFrom(_, _, _)
WellFormedFrom(f, version, a) ==
  /\ a < Len(f)
  /\ IF ByteAt(f, a) = 255 THEN a = Len(f) - 1
     ELSE /\ InstrLen(f, a, version) > 0
          /\ a + InstrLen(f, a, version) <= Len(f)
          /\ WellFormedFrom(f, version, a + InstrLen(f, a, version))

\* the addresses of the instructions of such a file
RECURSIVE InstrAddrs(_, _, _)
InstrAddrs(f, version, a) ==
  IF ByteAt(f, a) = 255 THEN <<a>>
  ELSE <<a>> \o InstrAddrs(f, version, a + InstrLen(f, a, version))

\* C4: for a file made of complete known instructions that ends with 0xFF,
\* the finished pass has appended exactly one record per instruction, in
\* file order: the records carry the addresses of the instructions, the
\* first is at address 0 and the last is the end record
C4_OneRecordPerInstruction ==
  (pc = "parsed" /\ WellFormedFrom(orig, game_version, 0)) =>
    LET addrs == InstrAddrs(orig, game_version, 0)
        out   == SEQ_HEADER_OUTPUT
    IN /\ Len(out) = Len(addrs)
       /\ \A i \in 1..Len(out) : AddrOf(out[i]) = addrs[i]
       /\ AddrOf(out[1]) = 0
       /\ out[Len(out)].name = "end"

\* C5: an iteration that reads the opcode 0xFF appends the end record and
\* is the last one: the pass has stopped there, and the end record, with
\* the address of that opcode, is the last record
C5_EndStopsDecoding ==
  \A i \in 1..Len(parse.steps) :
    LET st == parse.steps[i] IN
    (st.at < Len(orig) /\ ByteAt(orig, st.at) = 255) =>
      /\ st.kind = "end"
      /\ i = Len(parse.steps)
      /\ parse.status = "end"
      /\ SEQ_HEADER_OUTPUT # <<>>
      /\ SEQ_HEADER_OUTPUT[Len(SEQ_HEADER_OUTPUT)].name = "end"
      /\ AddrOf(SEQ_HEADER_OUTPUT[Len(SEQ_HEADER_OUTPUT)]) = st.at

RECURSIVE SumAdv(_)
SumAdv(steps) == IF steps = <<>> THEN 0 ELSE Head(steps).adv + SumAdv(Tail(steps))

\* C6: in a pass that reached the terminal opcode the steps tile the file
\* from address 0: the first opcode is read at 0, every later one where the
\* step before it ended, and the advances (the terminal opcode counting 1)
\* add up to the address of the terminal opcode plus 1
C6_StepsTileFromZero ==
  parse.status = "end" =>
    LET s == parse.steps
        n == Len(s)
    IN /\ s[1].at = 0
       /\ \A i \in 2..n : s[i].at = s[i - 1].at + s[i - 1].adv
       /\ SumAdv(s) + 1 = s[n].at + 1

\* C7: when the decode pass failed with an error no byte is ever written,
\* no archive is made and the process exits with a nonzero status
C7_DecodeErrorIsFatal ==
  parse.status = "raised" =>
    /\ writes = <<>>
    /\ file = orig
    /\ pc = "exit" => exitcode # 0

\* C8: an archive that holds more than one sequence file is a fatal error:
\* no byte is written, no new archive is made and the exit status is
\* nonzero
C8_SeveralSequencesFatal ==
  nseq > 1 =>
    /\ writes = <<>>
    /\ file = orig
    /\ ~new_archive
    /\ pc = "exit" => exitcode # 0

\* C9: a second pass over the same unmodified file in the same process ends
\* with the same output list and the same eight address lists as the first
C9_SecondPassIdentical ==
  pc = "parsed2" =>
    /\ SEQ_HEADER_OUTPUT = first.out
    /\ parse.lists = first.lists
    /\ StepAddrs(parse.steps) = StepAddrs(first.steps)

\* the opcodes that have no entry in the table
UnknownOpcodes == (16..63) \cup {192, 193, 202, 203, 207, 216} \cup (224..238)

\* the address at which the next iteration of the loop reads its opcode,
\* and whether there is such an iteration
Boundary == IF impl = "v0424" THEN parse.cursor ELSE parse.pos
ReadsOpcode ==
  /\ pc = "parse"
  /\ parse.status = "run"
  /\ parse.cursor < Len(file)
  /\ Boundary < Len(file)

\* C10: none of the opcodes 0x10-0x3F, 0xC0, 0xC1, 0xCA, 0xCB, 0xCF, 0xD8,
\* 0xE0-0xEE has an entry in either edition, and an iteration that reads
\* such an opcode appends nothing to the output list or to an address list,
\* raises no error, and leaves the loop running with the next opcode to be
\* read one byte further. (The first conjunct does not depend on the state;
\* it is evaluated on the steps out of the empty file's initial states.)
C10_UnknownOpcodeSkipped ==
  [][/\ (pc = "start" /\ orig = <<>>) =>
          \A op \in UnknownOpcodes, v \in SeqVersion :
            /\ SEQ_MESSAGES(op) = NoMessage
            /\ PARSE_SEQ_branch(op, v) = Branch("none", 1, "none", "none", "none")
     /\ (ReadsOpcode /\ ByteAt(file, Boundary) \in UnknownOpcodes) =>
          /\ pc' = "parse"
          /\ parse'.status = "run"
          /\ parse'.out = parse.out
          /\ parse'.lists = parse.lists
          /\ Boundary' = Boundary + 1
          /\ file' = file]_vars

\* v0205 has skipped an unknown opcode read at address 0 and goes on at 1
C10_Witness ==
  /\ impl = "v0205"
  /\ pc = "parse"
  /\ parse.status = "run"
  /\ parse.steps = <<Step(0, 1, "skip")>>
  /\ ByteAt(orig, 0) \in UnknownOpcodes
  /\ Boundary = 1
  /\ SEQ_HEADER_OUTPUT = <<>>
  /\ parse.lists = EmptyLists

\* the opcodes whose table entry is gated to the version MM
GatedOpcodes == {195, 194}

\* C11: under the version OOT an iteration that reads 0xC3 or 0xC2 does what
\* it does for an opcode without entry: nothing is appended to the output
\* list or to an address list, no error is raised, and the loop goes on
\* with the next opcode read one byte further
C11_GatedOpcodeSkippedUnderOOT ==
  [][(ReadsOpcode /\ game_version = "OOT" /\ ByteAt(file, Boundary) \in GatedOpcodes) =>
       /\ pc' = "parse"
       /\ parse'.status = "run"
       /\ parse'.out = parse.out
       /\ parse'.lists = parse.lists
       /\ parse'.steps = Append(parse.steps, Step(Boundary, 1, "skip"))
       /\ Boundary' = Boundary + 1
       /\ file' = file]_vars

\* v0424 under OOT has passed over 0xC3 at address 1 and goes on at 2
C11_Witness ==
  /\ impl = "v0424"
  /\ game_version = "OOT"
  /\ pc = "parse"
  /\ parse.status = "run"
  /\ parse.steps = <<Step(1, 1, "skip")>>
  /\ ByteAt(orig, 1) = 195
  /\ Boundary = 2
  /\ SEQ_HEADER_OUTPUT = <<>>
  /\ parse.lists = EmptyLists

\* f with one byte replaced for every write of ws, in order
RECURSIVE Patched(_, _)
Patched(f, ws) ==
  IF ws = <<>> THEN f
  ELSE Patched([f EXCEPT ![Head(ws).addr + 1] = Head(ws).byte], Tail(ws))

\* C12: whatever volume patches and jump fixes have been made, the file has
\* the length of the input, every patch was one byte 0..255 at an address
\* inside the file, and the file is the input with just these bytes
\* replaced: a byte that differs from the input lies at a patched address
C12_PatchesReplaceSingleBytes ==
  /\ Len(file) = Len(orig)
  /\ \A k \in 1..Len(writes) :
       /\ writes[k].addr \in 0..(Len(orig) - 1)
       /\ writes[k].byte \in 0..255
  /\ file = Patched(orig, writes)
  /\ \A a \in 0..(Len(orig) - 1) :
       ByteAt(file, a) # ByteAt(orig, a) => \E k \in 1..Len(writes) : writes[k].addr = a

\* a volume patch and a jump fix were both made and the run is over
C12_Witness ==
  /\ pc = "exit"
  /\ fixed_jumps
  /\ Len(writes) >= 2
  /\ writes[1].addr \in {MSTR_VOL_ADDR[i] : i \in 1..Len(MSTR_VOL_ADDR)}
  /\ writes[Len(writes)].byte \in {251, 244}
  /\ file # orig

\* C13: after an automatic edit with the volume of the command line, every
\* instruction the pass decoded as mstrvol (0xDB) at address a has the
\* requested byte at a + 1 and still 0xDB at a, up to the end of the run
C13_AutoEditUniform ==
  (value # NoVol /\ pc \in {"jumps", "return", "exit"}) =>
    \A i \in 1..Len(parse.steps) :
      LET a == parse.steps[i].at IN
      (parse.steps[i].kind = "rec" /\ ByteAt(orig, a) = 219) =>
        /\ ByteAt(file, a + 1) = check_input(value)
        /\ ByteAt(file, a) = 219

\* the automatic edit was chosen at the prompt for two volume instructions
\* whose arguments were not the requested byte
C13_Witness ==
  /\ pc = "jumps"
  /\ value = IntVol(127)
  /\ line.kind \in {"auto", "Auto", "AUTO"}
  /\ Len(MSTR_VOL_ADDR) = 2
  /\ \A i \in 1..2 : ByteAt(orig, MSTR_VOL_ADDR[i]) # 127
  /\ \A i \in 1..2 : ByteAt(file, MSTR_VOL_ADDR[i]) = 127

\* the five lists of conditional jumps
ConditionalJumpLists ==
  {"EQJUMP_ADDR", "LTJUMP_ADDR", "GTEQJUMP_ADDR", "REQJUMP_ADDR", "RLTJUMP_ADDR"}

\* C14: when the jump fixes were requested and main has come to its end,
\* fixed_jumps is set and every address of each of the five lists of
\* conditional jumps has been written with a jump opcode, whatever the
\* number of volume addresses was
C14_AllJumpListsPatched ==
  (fix_jumps /\ pc \in {"return", "exit"}) =>
    /\ fixed_jumps
    /\ \A L \in ConditionalJumpLists :
         \A i \in 1..Len(parse.lists[L]) :
           LET a == parse.lists[L][i] IN
           /\ \E k \in 1..Len(writes) : writes[k].addr = a /\ writes[k].byte \in {251, 244}
           /\ ByteAt(file, a) \in {251, 244}

\* v0424 has patched two volume addresses and then a relative jump
C14_Witness ==
  /\ impl = "v0424"
  /\ pc = "exit"
  /\ fix_jumps
  /\ Len(MSTR_VOL_ADDR) = 2
  /\ Len(REQJUMP_ADDR) = 1
  /\ Len(writes) = 3
  /\ writes[3].addr = REQJUMP_ADDR[1]

\* C15: when a pass that ended without error has collected no volume
\* address, main sets no_vol (the warning), makes no volume edit, so that
\* every write is a jump fix at a collected jump address, and the process
\* ends with status 0
C15_NoVolumeIsNotFatal ==
  (/\ Len(MSTR_VOL_ADDR) = 0
   /\ parse.status \in {"end", "eof"}
   /\ pc \in {"jumps", "return", "exit"}) =>
    /\ no_vol
    /\ value = NoVol
    /\ line = NoLine
    /\ \A k \in 1..Len(writes) :
         /\ writes[k].byte \in {251, 244}
         /\ \E L \in ConditionalJumpLists :
              \E i \in 1..Len(parse.lists[L]) : parse.lists[L][i] = writes[k].addr
    /\ ~fixed_jumps => file = orig
    /\ pc = "exit" => exitcode = 0

\* a file without volume message whose jump was fixed; the run ended with 0
C15_Witness ==
  /\ pc = "exit"
  /\ parse.status = "end"
  /\ Len(MSTR_VOL_ADDR) = 0
  /\ no_vol
  /\ fixed_jumps
  /\ writes # <<>>
  /\ exitcode = 0

\* C16: with several volume addresses, when the edit is done, be it the
\* automatic or the manual one, the writes are one per address of
\* MSTR_VOL_ADDR, in its order, and if the same byte was written every time
\* the file is what auto_seq_edit makes of the input with that byte
C16_AutoAndManualSameEffect ==
  (pc = "jumps" /\ Len(MSTR_VOL_ADDR) > 1) =>
    /\ [k \in 1..Len(writes) |-> writes[k].addr] = MSTR_VOL_ADDR
    /\ (\A k \in 1..Len(writes) : writes[k].byte = writes[1].byte) =>
         file = auto_seq_edit(orig, MSTR_VOL_ADDR, IntVol(writes[1].byte))

\* v0424, manual edit: 0xFF was entered for both of two volume messages
C16_Witness ==
  /\ impl = "v0424"
  /\ pc = "jumps"
  /\ value = NoVol
  /\ line = Line("hex", 255)
  /\ Len(MSTR_VOL_ADDR) = 2
  /\ Len(writes) = 2
  /\ writes[1].byte = 255
  /\ writes[2].byte = 255
  /\ ByteAt(orig, MSTR_VOL_ADDR[2]) # 255
  /\ file = auto_seq_edit(orig, MSTR_VOL_ADDR, IntVol(255))

\* f, from address a on, is made of complete known instructions only, none
\* of them end, and stops where the last of them stops
RECURSIVE ExhaustedFrom(_, _, _)
ExhaustedFrom(f, version, a) ==
  \/ a = Len(f)
  \/ /\ a < Len(f)
     /\ ByteAt(f, a) # 255
     /\ InstrLen(f, a, version) > 0
     /\ a + InstrLen(f, a, version) <= Len(f)
     /\ ExhaustedFrom(f, version, a + InstrLen(f, a, version))

\* C17: for a file made of complete known instructions without an end
\* instruction, the pass has stopped because a read at the loop condition
\* found the end of the stream: no exception ended the thread, the records
\* appended are kept and none of them is an end record, and main goes on
\* to the edits
C17_ExhaustedStreamStops ==
  (pc \in {"parsed", "ask", "manual", "jumps"} /\ orig # <<>>
     /\ ExhaustedFrom(orig, game_version, 0)) =>
    /\ parse.status = "eof"
    /\ "parse_seq" \notin lost
    /\ \A i \in 1..Len(SEQ_HEADER_OUTPUT) : SEQ_HEADER_OUTPUT[i].name # "end"
    /\ exitcode = 0 - 1

\* C18: a step that writes to the file is taken only when the parser thread
\* is no longer alive, and leaves the pass as it is; once main is past
\* start_thread the thread is not alive; a turn of the progress loop changes
\* the frame index only: not the file, not the handle position, no write
C18_HandleOneThreadAtATime ==
  [][/\ (file' # file \/ writes' # writes) => (parse.status # "run" /\ parse' = parse)
     /\ pc \in {"parsed", "ask", "manual", "jumps", "return", "exit"} => parse.status # "run"
     /\ (pc = "parse" /\ pc' = "parse" /\ spinner' # spinner) =>
          (file' = file /\ parse' = parse /\ writes' = writes)]_vars

\* v0424: the thread has appended a volume record and is alive, main is at
\* its third turn of the progress loop, and nothing was written
C18_Witness ==
  /\ impl = "v0424"
  /\ pc = "parse"
  /\ parse.status = "run"
  /\ spinner = 2
  /\ Len(SEQ_HEADER_OUTPUT) = 1
  /\ Len(MSTR_VOL_ADDR) = 1
  /\ Boundary < Len(file)
  /\ writes = <<>>
  /\ file = orig

\* the steps of a pass that appended a record
AppendsRecord(step) == step.kind \in {"rec", "end"}

\* a record with an address in its text (v0205 prints unk_msg with @????)
HasAddr(record) == \A k \in 1..Len(record.addr) : record.addr[k] # "?"

\* the records the running pass has appended
PassOutput == SubSeq(parse.out, Len(first.out) + 1, Len(parse.out))

\* C19: at every moment of a pass, each opcode was read at an address
\* greater than that of the opcode read before it; the records of the pass
\* are, in output order, those of the steps that appended one; a record
\* carries the address of its step, and the addresses the records carry are
\* strictly increasing in output order
C19_AddressesStrictlyIncrease ==
  LET steps == parse.steps
      recs  == SelectSeq(steps, AppendsRecord)
      out   == PassOutput
  IN /\ \A i \in 1..(Len(steps) - 1) : steps[i].at < steps[i + 1].at
     /\ Len(out) = Len(recs)
     /\ \A k \in 1..Len(out) : HasAddr(out[k]) => AddrOf(out[k]) = recs[k].at
     /\ \A j, k \in 1..Len(out) :
          (j < k /\ HasAddr(out[j]) /\ HasAddr(out[k])) => AddrOf(out[j]) < AddrOf(out[k])

\* v0205: a finished pass of three steps, a skipped byte before a testchan
\* record and the end record
C19_Witness ==
  /\ impl = "v0205"
  /\ pc = "parsed"
  /\ Len(parse.steps) = 3
  /\ parse.steps[1].kind = "skip"
  /\ Len(SEQ_HEADER_OUTPUT) = 2
  /\ SEQ_HEADER_OUTPUT[1].name = "testchan"
  /\ SEQ_HEADER_OUTPUT[2].name = "end"
  /\ AddrOf(SEQ_HEADER_OUTPUT[1]) = 1
  /\ AddrOf(SEQ_HEADER_OUTPUT[2]) = 2

\* b is the least integer that is not below p / 100 * 127
IsCeilOfPercent(b, p) == b * 100 >= p * 127 /\ (b - 1) * 100 < p * 127

\* C20: after an automatic edit with the volume of the command line, every
\* volume write carries, for a percentage p, the byte ceil(p / 100 * 127)
\* (0 for 0%, 64 for 50%, 127 for 100%, 254 for 200%) and, for an integer,
\* that integer; a line of the manual edit is converted the same way, for
\* every percentage 0..200 and every integer 0..255, decimal or 0x
C20_PercentageToByte ==
  /\ (value # NoVol /\ pc \in {"jumps", "return", "exit"}) =>
       /\ Len(writes) >= Len(MSTR_VOL_ADDR)
       /\ \A k \in 1..Len(MSTR_VOL_ADDR) :
            LET b == writes[k].byte IN
            /\ writes[k].addr = MSTR_VOL_ADDR[k]
            /\ b \in 0..255
            /\ value.pct => IsCeilOfPercent(b, value.v)
            /\ value = PctVol(0) => b = 0
            /\ value = PctVol(50) => b = 64
            /\ value = PctVol(100) => b = 127
            /\ value = PctVol(200) => b = 254
            /\ ~value.pct => b = value.v
  /\ (/\ value = NoVol /\ pc \in {"manual", "jumps"} /\ writes # <<>>
      /\ line.kind = "percent" /\ line.v \in 0..200) =>
       IsCeilOfPercent(writes[Len(writes)].byte, line.v)
  /\ (pc = "start" /\ orig = <<>> /\ impl = "v0424" /\ game_version = "MM") =>
       /\ \A p \in 0..200 : IsCeilOfPercent(convert_input(Line("percent", p)), p)
       /\ \A v \in 0..255 : /\ convert_input(Line("int", v)) = v
                            /\ convert_input(Line("hex", v)) = v

\* the run is over after the automatic edit with 200%: 0xFE is in the file
\* at the volume address
C20_Witness ==
  /\ pc = "exit"
  /\ exitcode = 0
  /\ value = PctVol(200)
  /\ Len(MSTR_VOL_ADDR) = 1
  /\ writes[1] = [addr |-> MSTR_VOL_ADDR[1], byte |-> 254]
  /\ ByteAt(file, MSTR_VOL_ADDR[1]) = 254
  /\ ByteAt(orig, MSTR_VOL_ADDR[1]) # 254

\* 1 plus the number of argument bytes of a reader of fixed length
FixedLen(read_func) ==
  CASE read_func = "read_msg" -> 1
    [] read_func = "read_u8" -> 2
    [] read_func = "read_u8x2" -> 3
    [] read_func = "read_u16" -> 3
    [] read_func = "read_u8_u16" -> 4
    [] read_func = "read_s16_u8" -> 4

FixedReaders == {"read_msg", "read_u8", "read_u8x2", "read_u16", "read_u8_u16",
                 "read_s16_u8"}

\* C21: every step that appended the record of an opcode of fixed length
\* advances by 1 plus the argument bytes of its reader (1, 2, 3 or 4), and
\* the opcode of the next step is read that many bytes further on
C21_FixedAdvance ==
  \A i \in 1..Len(parse.steps) :
    LET st  == parse.steps[i]
        msg == SEQ_MESSAGES(ByteAt(orig, st.at))
    IN (st.kind = "rec" /\ msg.read_func \in FixedReaders) =>
         /\ st.adv = FixedLen(msg.read_func)
         /\ i < Len(parse.steps) => parse.steps[i + 1].at = st.at + FixedLen(msg.read_func)

\* C22: under MM an iteration that reads 0xC3 or 0xC2 at its boundary, with
\* the two bytes after it in the file, appends exactly one record, leaves
\* the pass running, and the next opcode is read 3 bytes further on
C22_GatedOpcodeDecodedUnderMM ==
  [][(ReadsOpcode /\ game_version = "MM" /\ ByteAt(file, Boundary) \in GatedOpcodes
        /\ Boundary + 3 <= Len(file)) =>
       /\ Len(parse'.out) = Len(parse.out) + 1
       /\ parse'.steps = Append(parse.steps, Step(Boundary, 3, "rec"))
       /\ parse'.status = "run"
       /\ Boundary' = Boundary + 3]_vars

\* the opcode of the instructions an address list is meant for
OpcodeOfList(L) ==
  CASE L = "MSTR_VOL_ADDR" -> 219
    [] L = "JUMP_ADDR" -> 251
    [] L = "EQJUMP_ADDR" -> 250
    [] L = "LTJUMP_ADDR" -> 249
    [] L = "GTEQJUMP_ADDR" -> 245
    [] L = "RJUMP_ADDR" -> 244
    [] L = "REQJUMP_ADDR" -> 243
    [] L = "RLTJUMP_ADDR" -> 242

\* the addresses of the instructions with opcode op the steps appended a
\* record for, in order
RECURSIVE DecodedAt(_, _, _)
DecodedAt(steps, f, op) ==
  IF steps = <<>> THEN <<>>
  ELSE (IF steps[1].kind = "rec" /\ ByteAt(f, steps[1].at) = op
        THEN <<steps[1].at>> ELSE <<>>) \o DecodedAt(Tail(steps), f, op)

\* C23: after the pass of a run, each of the eight address lists has as
\* many entries as instructions of its opcode were decoded, the k-th entry
\* being the address of the k-th of them or of its argument
C23_ListsMatchInstructions ==
  pc = "parsed" =>
    \A L \in ListNames :
      LET at == DecodedAt(parse.steps, orig, OpcodeOfList(L)) IN
      /\ Len(parse.lists[L]) = Len(at)
      /\ \A k \in 1..Len(at) : parse.lists[L][k] \in {at[k], at[k] + 1}

\* the length of the delay message at address a of f by the byte after its
\* opcode
DelayLen(f, a) == IF ByteAt(f, a + 1) >= 128 THEN 3 ELSE 2

\* C24: an iteration that reads 0xFD at its boundary, the message being
\* whole in the file, appends one record and advances by 3 when the byte
\* after the opcode is 0x80 or more and by 2 otherwise; the next opcode is
\* read at the address of the delay plus that length
C24_DelayLength ==
  [][(/\ ReadsOpcode
      /\ ByteAt(file, Boundary) = 253
      /\ Boundary + 1 < Len(file)
      /\ Boundary + DelayLen(file, Boundary) <= Len(file)) =>
       /\ parse'.steps = Append(parse.steps, Step(Boundary, DelayLen(file, Boundary), "rec"))
       /\ Len(parse'.out) = Len(parse.out) + 1
       /\ parse'.out[Len(parse'.out)].name = "delay"
       /\ parse'.status = "run"
       /\ Boundary' = Boundary + DelayLen(file, Boundary)]_vars

\* v0424: a delay at address 1 whose length byte is 0xC2 was decoded with
\* its 16-bit argument, and the next opcode will be read at address 4
C24_Witness ==
  /\ impl = "v0424"
  /\ pc = "parse"
  /\ parse.steps = <<Step(1, 3, "rec")>>
  /\ ByteAt(orig, 1) = 253
  /\ ByteAt(orig, 2) = 194
  /\ Len(SEQ_HEADER_OUTPUT) = 1
  /\ SEQ_HEADER_OUTPUT[1].name = "delay"
  /\ Boundary = 4

\* the 16-bit big-endian value of the bytes hi, lo, sign-extended
S16(hi, lo) == IF hi < 128 THEN 256 * hi + lo ELSE 256 * hi + lo - 65536

\* C25: for every print3 record appended at address a, the first argument
\* the reader returned is the sign-extended 16-bit big-endian value of the
\* bytes at a + 1 and a + 2
C25_Print3SignExtended ==
  \A i \in 1..Len(parse.steps) :
    LET a == parse.steps[i].at IN
    (parse.steps[i].kind = "rec" /\ ByteAt(orig, a) = 239) =>
      ReadMessage(orig, a, "read_s16_u8", 0).arg_1.val
        = S16(ByteAt(orig, a + 1), ByteAt(orig, a + 2))

\* the opcodes of the conditional jumps
ConditionalJumpOpcodes == {250, 249, 245, 243, 242}

\* C26: once the jump fixes have been applied, a pass over the patched
\* bytes collects no conditional jump, reads its opcodes at the addresses
\* the first pass read them, and every step of an instruction that is no
\* conditional jump is the same step (address, advance, kind) as before
C26_JumpFixCompleteIdempotent ==
  (fixed_jumps /\ parse.status \in {"end", "eof"}) =>
    LET again == Decode(impl, file, game_version) IN
    /\ \A L \in ConditionalJumpLists : again.lists[L] = <<>>
    /\ StepAddrs(again.steps) = StepAddrs(parse.steps)
    /\ \A i \in 1..Len(parse.steps) :
         (\/ parse.steps[i].at >= Len(orig)
          \/ ByteAt(orig, parse.steps[i].at) \notin ConditionalJumpOpcodes) =>
           again.steps[i] = parse.steps[i]

\* C27: once __main__ has looked at the extension of an archive, and so
\* during the unpacking, the decoding and the edits, the game version is OOT
\* for an .ootrs archive and MM for an .mmrs archive
C27_ExtensionDecidesVersion ==
  (ext \in {"ootrs", "mmrs"} /\ pc # "start") =>
    game_version = (IF ext = "ootrs" THEN "OOT" ELSE "MM")

\* C28: a decode pass that is running always leaves its loop: by decoding
\* 0xFF, by reaching the end of the file, or by an exception of its thread
C28_DecodeTerminates ==
  (parse.status = "run") ~> (parse.status \in {"end", "eof", "raised"})

\* a pass left at the end of the file after three iterations
C28_Witness ==
  /\ pc = "parsed"
  /\ parse.status = "eof"
  /\ Len(parse.steps) >= 3

\* the line is a number of one byte: decimal or 0x text of an integer 0..255,
\* or a percentage p whose byte ceil(p / 100 * 127) is in 0..255
OneByteLine(l) ==
  \/ l.kind \in {"int", "hex"} /\ l.v \in 0..255
  \/ l.kind = "percent" /\ \E b \in 0..255 : IsCeilOfPercent(b, l.v)

\* C29: a line read by manual_seq_edit that is not 'exit' and not a number of
\* one byte leaves the file, the writes and the address that is prompted as
\* they are; a write of manual_seq_edit is one byte 0..255 at the prompted
\* address, which has not been written before, and moves to the next address
C29_ManualInvalidWritesNothing ==
  [][(pc = "manual" /\ line'.kind # "exit") =>
       IF OneByteLine(line')
       THEN /\ \E b \in 0..255 :
                 /\ writes' = Append(writes, [addr |-> MSTR_VOL_ADDR[idx], byte |-> b])
                 /\ file' = WriteByte(file, MSTR_VOL_ADDR[idx], b)
            /\ \A k \in 1..Len(writes) : writes[k].addr # MSTR_VOL_ADDR[idx]
            /\ idx' = idx + 1
       ELSE /\ file' = file
            /\ writes' = writes
            /\ idx' = idx
            /\ pc' = "manual"]_vars

\* the second address is prompted again after a line that is no byte, the
\* first address being written
C29_Witness ==
  /\ pc = "manual"
  /\ idx = 2
  /\ Len(writes) = 1
  /\ line \in {Line("int", 256), Line("int", 0 - 1), Line("percent", 201),
               Line("percent", 0 - 1), Line("text", 0)}

\* C30: a line read at the auto / manual / exit prompt: 'exit', 'Exit' and
\* 'EXIT' end the process with the file as it was; 'auto', 'Auto' and 'AUTO'
\* write one byte at every volume address; 'manual', 'Manual' and 'MANUAL'
\* start the interactive edit at the first address; any other line leaves
\* the file as it was and the prompt is read again
C30_EverySpellingHonoured ==
  [][pc = "ask" =>
       LET answer == line'.kind IN
       /\ answer \in {"exit", "Exit", "EXIT"} =>
            pc' = "exit" /\ file' = file /\ writes' = writes
       /\ answer \in {"auto", "Auto", "AUTO"} =>
            /\ pc' = "jumps"
            /\ \E b \in 0..255 : /\ writes' = writes \o WritesOf(MSTR_VOL_ADDR, b)
                                 /\ file' = auto_seq_edit(file, MSTR_VOL_ADDR, IntVol(b))
       /\ answer \in {"manual", "Manual", "MANUAL"} =>
            pc' = "manual" /\ idx' = 1 /\ file' = file /\ writes' = writes
       /\ answer = "other" =>
            pc' = "ask" /\ file' = file /\ writes' = writes]_vars

====
